---- MODULE Spec2Model ----
(***************************************************************************)
(* Cremer-Pople ring puckering analysis: src/ring_analysis.py (parser,     *)
(* puckering engine, conformation classifier, batch driver) and            *)
(* src/main.py (entry point, result persistence).                          *)
(*                                                                         *)
(* Numbers.  The program computes in IEEE-754 doubles.  In the classifier  *)
(* an angle is an integer number of half degrees (every such double is     *)
(* exact, and so are its sums with whole turns and its remainders), or one *)
(* of three doubles that are not: TinyNegative (-1e-20), TinyPositive      *)
(* (1e-20) and NaN.  In the puckering engine                               *)
(* coordinates are integers in an arbitrary length unit, and a value       *)
(* derived from them is one of:                                            *)
(*   - an enclosure <<lo, hi>>: two integers at the scale of the quantity  *)
(*     with lo <= hi; the double the program computes lies between them.   *)
(*     <<0, 0>> is an exact floating-point zero, and it is the only        *)
(*     enclosure of a single number: every other result is rounded, and    *)
(*     where its terms cancel the program holds a residue of the rounding  *)
(*     whose sign and size the enclosure leaves open;                      *)
(*   - NotANumber: IEEE-754 NaN, absorbing for arithmetic and false for    *)
(*     every comparison;                                                   *)
(*   - Unknown: a double that only rounding residues decide (the           *)
(*     direction of a vector of residues): NaN or any number.              *)
(* Where a test of the program depends on more than the enclosure says     *)
(* (np.allclose on a value that may be zero), the function is the set of   *)
(* the results the program can return, and the action takes one of them.   *)
(***************************************************************************)
EXTENDS Integers, Sequences, FiniteSets, TLC

VARIABLES
    theta_in, phi_in, turns,      \* classifier: query angles, <<k1, k2>> full turns
    label, label_shifted,         \* classifier: label of the query / of the shifted query
    ring, pucker, polar,          \* engine: ring coordinates, pucker result, polar result
    argc, tree,                   \* driver: len(sys.argv), the directory tree on disk
    pc, idx, results,             \* driver: position of main, file index, result list
    handled, calls,               \* driver: outcome per file visited, calls made by main
    json_file, raw_data, ret      \* driver: puckering_data.json, what is read back, main's outcome

vars == <<theta_in, phi_in, turns, label, label_shifted, ring, pucker, polar,
          argc, tree, pc, idx, results, handled, calls, json_file, raw_data, ret>>

classifier_vars == <<theta_in, phi_in, turns, label, label_shifted>>
engine_vars == <<ring, pucker, polar>>
driver_vars == <<argc, tree, pc, idx, results, handled, calls, json_file, raw_data, ret>>

(***************************************************************************)
(* The doubles of the classifier and their IEEE-754 arithmetic.  A tiny    *)
(* double is far below half an ulp of every other nonzero angle: a sum     *)
(* with it is rounded to the other term.                                   *)
(***************************************************************************)
NaN == -2000000001
TinyNegative == -2000000005
TinyPositive == 2000000005

\* half degrees per degree, and the double of d whole degrees
TicksPerDegree == 2

IsNaN(x) == x = NaN
IsTiny(x) == x = TinyNegative \/ x = TinyPositive

Deg(d) == IF IsNaN(d) THEN NaN ELSE d * TicksPerDegree

Negate(x) ==
    IF IsNaN(x) THEN NaN
    ELSE IF x = TinyNegative THEN TinyPositive
    ELSE IF x = TinyPositive THEN TinyNegative
    ELSE -x

\* a + b, rounded to nearest
Add(a, b) ==
    IF IsNaN(a) \/ IsNaN(b) THEN NaN
    ELSE IF IsTiny(a) /\ IsTiny(b) THEN (IF a = b THEN a ELSE 0)
    ELSE IF IsTiny(a) THEN (IF b = 0 THEN a ELSE b)
    ELSE IF IsTiny(b) THEN (IF a = 0 THEN b ELSE a)
    ELSE a + b
Sub(a, b) == Add(a, Negate(b))

\* a * b: a product with a tiny factor is tiny, with the sign of the product
Mul(a, b) ==
    LET negative(x) == x = TinyNegative \/ (x # TinyPositive /\ x < 0)
    IN  IF IsNaN(a) \/ IsNaN(b) THEN NaN
        ELSE IF a = 0 \/ b = 0 THEN 0
        ELSE IF IsTiny(a) \/ IsTiny(b)
             THEN (IF negative(a) = negative(b) THEN TinyPositive ELSE TinyNegative)
        ELSE a * b

\* Python's float % : fmod(a, m), which is exact and has the sign of a, and
\* when that is negative m is added to it.  For an angle in half degrees the
\* sum is exact; for the tiny negative it is rounded to m itself, so the
\* result is not below m
Mod(a, m) ==
    IF IsNaN(a) THEN NaN
    ELSE IF a = TinyNegative THEN m
    ELSE IF a = TinyPositive THEN TinyPositive
    ELSE a % m

\* the position of a double on the line: the tiny ones lie between 0 and
\* the half degrees next to it
Rank(x) ==
    IF x = TinyNegative THEN -1 ELSE IF x = TinyPositive THEN 1 ELSE 2 * x

\* every ordered comparison with NaN is false
Less(a, b) == ~IsNaN(a) /\ ~IsNaN(b) /\ Rank(a) < Rank(b)

Abs(x) == IF x < 0 THEN -x ELSE x

(***************************************************************************)
(* ConformationClassifier: conformation_haversine                          *)
(***************************************************************************)
None == "None"

\* the reference table, in whole degrees and in the dict's insertion order
\* (lines 157-163)
conformations ==
    << [name |-> "Chair (C)",       theta |-> <<0, 180>>,  has_phi |-> FALSE, phi |-> <<>>],
       [name |-> "Boat (B)",        theta |-> <<90>>,      has_phi |-> TRUE,
        phi |-> <<0, 60, 120, 180, 240, 300>>],
       [name |-> "Twist-Boat (TB)", theta |-> <<90>>,      has_phi |-> TRUE,
        phi |-> <<30, 90, 150, 210, 270, 330>>],
       [name |-> "Half-Chair (HC)", theta |-> <<30, 150>>, has_phi |-> FALSE, phi |-> <<>>],
       [name |-> "Half-Boat (HB)",  theta |-> <<60, 120>>, has_phi |-> FALSE, phi |-> <<>>] >>

Labels == {conformations[i].name : i \in 1..Len(conformations)}

\* theta_deg % 180 and phi_deg % 360 (lines 154-155)
NormalizeTheta(theta_deg) == Mod(theta_deg, Deg(180))
\* (NormalizePhiDropped: phi taken as given)
NormalizePhiDropped(phi_deg) == phi_deg
NormalizePhi(phi_deg) == Mod(phi_deg, Deg(360))

\* angles.get('phi', [phi_deg]) (line 174): a family without a phi list is
\* compared at the query's own phi
PhiRefs(c, phi_deg) ==
    IF c.has_phi THEN [i \in 1..Len(c.phi) |-> Deg(c.phi[i])] ELSE <<phi_deg>>

\* the (theta_ref, phi_ref) pairs of one family in the order of the nested
\* loops of lines 176-177; own marks a phi_ref taken from the query
RefsOf(c, phi_deg) ==
    LET refs == PhiRefs(c, phi_deg)
    IN  [i \in 1..(Len(c.theta) * Len(refs)) |->
            [name |-> c.name,
             t    |-> Deg(c.theta[((i - 1) \div Len(refs)) + 1]),
             p    |-> refs[((i - 1) % Len(refs)) + 1],
             own  |-> ~c.has_phi]]

RECURSIVE AllRefsFrom(_, _)
AllRefsFrom(k, phi_deg) ==
    IF k > Len(conformations) THEN <<>>
    ELSE RefsOf(conformations[k], phi_deg) \o AllRefsFrom(k + 1, phi_deg)

\* np.linalg.norm(point1 - point2) with point = (lat, lon) = (90 - theta, phi)
\* (lines 168-182), squared and in half degrees: radians are carried in units
\* of pi/360, so deg2rad and np.degrees keep the number and the square root is
\* monotone.  What the double rounding of those conversions changes is in
\* RoundsBelow.
Distance2(theta_deg, phi_deg, r) ==
    LET dlat == Sub(Sub(Deg(90), theta_deg), Sub(Deg(90), r.t))
        dlon == Sub(phi_deg, r.p)
    IN  Add(Mul(dlat, dlat), Mul(dlon, dlon))

\* Double rounding.  deg2rad(np.degrees(deg2rad(x))) is not x in doubles
\* (30 -> 29.999999999999996, 60 -> 59.99999999999999, 120 ->
\* 119.99999999999999), so two landmarks at the same exact distance from the
\* query get computed distances that differ in the last bits.  This is the
\* IEEE-754 evaluation of lines 168-182 on the normalized queries (half
\* degrees of [0, 180] x [0, 360] and the tiny positive): the landmarks
\* (t, p), for the query's thetas and phis in half degrees, whose computed
\* distance is strictly below that of the landmark visited earlier at the
\* same exact distance.  A p of Own is a family's own-phi landmark.
Own == -1
RoundingTable ==
    LET AnyPhi == (0..Deg(360)) \cup {TinyPositive}
    IN
    { [t |-> Deg(60),  p |-> Own,      thetas |-> {Deg(45)},           phis |-> AnyPhi],
      [t |-> Deg(120), p |-> Own,      thetas |-> {Deg(105)},          phis |-> AnyPhi],
      [t |-> Deg(60),  p |-> Own,      thetas |-> {Deg(90)},           phis |-> {Deg(360)}],
      [t |-> Deg(120), p |-> Own,      thetas |-> {Deg(90)},           phis |-> {Deg(360)}],
      [t |-> Deg(30),  p |-> Own,      thetas |-> {135},               phis |-> {Deg(360)}],
      [t |-> Deg(150), p |-> Own,      thetas |-> {225},               phis |-> {Deg(360)}],
      [t |-> Deg(90),  p |-> Deg(0),   thetas |-> {Deg(65), Deg(115)}, phis |-> {Deg(60)}],
      [t |-> Deg(90),  p |-> Deg(60),  thetas |-> {Deg(65), Deg(115)}, phis |-> {Deg(120)}],
      [t |-> Deg(90),  p |-> Deg(180), thetas |-> {Deg(65), Deg(115)}, phis |-> {Deg(240)}],
      [t |-> Deg(90),  p |-> Deg(300), thetas |-> {Deg(65), Deg(115)}, phis |-> {Deg(360)}],
      [t |-> Deg(90),  p |-> Deg(300), thetas |-> {Deg(50), Deg(130)}, phis |-> {Deg(330)}],
      [t |-> Deg(90),  p |-> Deg(120), thetas |-> 100..260,            phis |-> {Deg(90)}],
      [t |-> Deg(90),  p |-> Deg(180), thetas |-> 100..260,            phis |-> {Deg(150)}],
      [t |-> Deg(90),  p |-> Deg(240), thetas |-> 100..260,            phis |-> {Deg(210)}],
      [t |-> Deg(90),  p |-> Deg(90),  phis |-> {Deg(75)},
       thetas |-> (93..267) \ {94, 95, 96, 103, 107, 109, 112, 115, 122,
                               238, 245, 248, 251, 253, 257, 264, 265, 266}],
      [t |-> Deg(90),  p |-> Deg(150), thetas |-> 93..267,             phis |-> {Deg(165)}],
      [t |-> Deg(90),  p |-> Deg(210), thetas |-> 93..267,             phis |-> {Deg(225)}],
      [t |-> Deg(90),  p |-> Deg(270), thetas |-> 93..267,
       phis |-> {Deg(255), Deg(285)}] }

RoundsBelow(theta_deg, phi_deg, r) ==
    \E row \in RoundingTable :
        /\ row.t = r.t
        /\ row.p = (IF r.own THEN Own ELSE r.p)
        /\ theta_deg \in row.thetas
        /\ phi_deg \in row.phis

\* `distance < min_distance` (line 184); best.set is FALSE while
\* min_distance is float('inf')
DistanceLess(theta_deg, phi_deg, r, best) ==
    LET d == Distance2(theta_deg, phi_deg, r)
    IN  /\ ~IsNaN(d)
        /\ \/ ~best.set
           \/ Less(d, best.d2)
           \/ d = best.d2 /\ RoundsBelow(theta_deg, phi_deg, r)

\* the loop of lines 172-186 over the landmarks from position k on
RECURSIVE Scan(_, _, _, _, _)
Scan(refs, k, theta_deg, phi_deg, best) ==
    IF k > Len(refs) THEN best
    ELSE IF DistanceLess(theta_deg, phi_deg, refs[k], best)
         THEN Scan(refs, k + 1, theta_deg, phi_deg,
                   [set |-> TRUE, d2 |-> Distance2(theta_deg, phi_deg, refs[k]),
                    assigned |-> refs[k].name])
         ELSE Scan(refs, k + 1, theta_deg, phi_deg, best)

\* lines 149-188; the amplitude argument is not read
conformation_haversine(amplitude, theta_deg, phi_deg) ==
    LET th == NormalizeTheta(theta_deg)
        ph == NormalizePhi(phi_deg)
        start == [set |-> FALSE, d2 |-> 0, assigned |-> None]
    IN  Scan(AllRefsFrom(1, ph), 1, th, ph, start).assigned

(***************************************************************************)
(* PuckerEngine.  Coordinates are integers; translate returns them         *)
(* multiplied by the ring size so that the centroid is subtracted exactly. *)
(* Every quantity derived from them is a value as described at the top: an *)
(* enclosure at the scale of the quantity, NotANumber or Unknown.  The     *)
(* scales: a stored v stands for v / scale.  Angles are whole degrees, and *)
(* a value in radians is carried in units of pi/180.                       *)
(***************************************************************************)
WeightScale == 100000     \* sines and cosines of multiples of 2 pi / N
AxisScale == 1000         \* the mean-plane axes R1 and R2
NormalScale == 10000      \* the components of the unit normal
LengthScale == 1000       \* displacements, components, amplitudes, Q
RootScale == 10000        \* sqrt(2 / N), 1 / sqrt(N), sines of whole degrees
HarmonicScale == 10000    \* the weights of cos_component and sin_component

Undecided == -2000000003

Zero == <<0, 0>>
NotANumber == <<NaN, NaN>>
Unknown == <<Undecided, Undecided>>

IsEnclosure(x) == x # NotANumber /\ x # Unknown
Exact(v) == <<v, v>>
Exacts(s) == [i \in 1..Len(s) |-> Exact(s[i])]

HasNaN(s) == \E i \in 1..Len(s) : s[i] = NotANumber
HasUnknown(s) == \E i \in 1..Len(s) : s[i] = Unknown
AllZero(s) == \A i \in 1..Len(s) : s[i] = Zero
ContainsZero(x) == IsEnclosure(x) /\ x[1] <= 0 /\ 0 <= x[2]

Min(a, b) == IF a <= b THEN a ELSE b
Max(a, b) == IF a >= b THEN a ELSE b
SetMin(s) == CHOOSE x \in s : \A y \in s : x <= y
SetMax(s) == CHOOSE x \in s : \A y \in s : x >= y
Clip(v, m) == Max(-m, Min(m, v))

FloorDiv(a, d) == a \div d
CeilDiv(a, d) == -((-a) \div d)

\* round to nearest, half away from zero
DivRound(a, b) ==
    IF a >= 0 THEN (2 * a + b) \div (2 * b) ELSE -((2 * (-a) + b) \div (2 * b))

\* floor of the square root, by bisection on lo <= sqrt(n) < hi
RECURSIVE ISqrtIn(_, _, _)
ISqrtIn(n, lo, hi) ==
    IF hi - lo <= 1 THEN lo
    ELSE LET mid == (lo + hi) \div 2
         IN  IF mid * mid <= n THEN ISqrtIn(n, mid, hi) ELSE ISqrtIn(n, lo, mid)

ISqrt(n) == ISqrtIn(n, 0, 46341)

\* np.cos(2 * np.pi * i / N) and np.sin(2 * np.pi * i / N), rounded to the
\* nearest unit of WeightScale, for i in 0..N-1 and N in 1..24 (row N,
\* column i + 1)
CosTable ==
    << <<100000>>,
       <<100000, -100000>>,
       <<100000, -50000, -50000>>,
       <<100000, 0, -100000, 0>>,
       <<100000, 30902, -80902, -80902, 30902>>,
       <<100000, 50000, -50000, -100000, -50000, 50000>>,
       <<100000, 62349, -22252, -90097, -90097, -22252, 62349>>,
       <<100000, 70711, 0, -70711, -100000, -70711, 0, 70711>>,
       <<100000, 76604, 17365, -50000, -93969, -93969, -50000, 17365, 76604>>,
       <<100000, 80902, 30902, -30902, -80902, -100000, -80902, -30902, 30902, 80902>>,
       <<100000, 84125, 41542, -14231, -65486, -95949, -95949, -65486, -14231, 41542, 84125>>,
       <<100000, 86603, 50000, 0, -50000, -86603, -100000, -86603, -50000, 0, 50000, 86603>>,
       <<100000, 88546, 56806, 12054, -35460, -74851, -97094, -97094, -74851, -35460, 12054, 56806, 88546>>,
       <<100000, 90097, 62349, 22252, -22252, -62349, -90097, -100000, -90097, -62349, -22252, 22252, 62349, 90097>>,
       <<100000, 91355, 66913, 30902, -10453, -50000, -80902, -97815, -97815, -80902, -50000, -10453, 30902, 66913, 91355>>,
       <<100000, 92388, 70711, 38268, 0, -38268, -70711, -92388, -100000, -92388, -70711, -38268, 0, 38268, 70711, 92388>>,
       <<100000, 93247, 73901, 44574, 9227, -27366, -60263, -85022, -98297, -98297, -85022, -60263, -27366, 9227, 44574, 73901, 93247>>,
       <<100000, 93969, 76604, 50000, 17365, -17365, -50000, -76604, -93969, -100000, -93969, -76604, -50000, -17365, 17365, 50000, 76604, 93969>>,
       <<100000, 94582, 78914, 54695, 24549, -8258, -40170, -67728, -87947, -98636, -98636, -87947, -67728, -40170, -8258, 24549, 54695, 78914, 94582>>,
       <<100000, 95106, 80902, 58779, 30902, 0, -30902, -58779, -80902, -95106, -100000, -95106, -80902, -58779, -30902, 0, 30902, 58779, 80902, 95106>>,
       <<100000, 95557, 82624, 62349, 36534, 7473, -22252, -50000, -73305, -90097, -98883, -98883, -90097, -73305, -50000, -22252, 7473, 36534, 62349, 82624, 95557>>,
       <<100000, 95949, 84125, 65486, 41542, 14231, -14231, -41542, -65486, -84125, -95949, -100000, -95949, -84125, -65486, -41542, -14231, 14231, 41542, 65486, 84125, 95949>>,
       <<100000, 96292, 85442, 68255, 46007, 20346, -6824, -33488, -57668, -77571, -91721, -99069, -99069, -91721, -77571, -57668, -33488, -6824, 20346, 46007, 68255, 85442, 96292>>,
       <<100000, 96593, 86603, 70711, 50000, 25882, 0, -25882, -50000, -70711, -86603, -96593, -100000, -96593, -86603, -70711, -50000, -25882, 0, 25882, 50000, 70711, 86603, 96593>> >>

SinTable ==
    << <<0>>,
       <<0, 0>>,
       <<0, 86603, -86603>>,
       <<0, 100000, 0, -100000>>,
       <<0, 95106, 58779, -58779, -95106>>,
       <<0, 86603, 86603, 0, -86603, -86603>>,
       <<0, 78183, 97493, 43388, -43388, -97493, -78183>>,
       <<0, 70711, 100000, 70711, 0, -70711, -100000, -70711>>,
       <<0, 64279, 98481, 86603, 34202, -34202, -86603, -98481, -64279>>,
       <<0, 58779, 95106, 95106, 58779, 0, -58779, -95106, -95106, -58779>>,
       <<0, 54064, 90963, 98982, 75575, 28173, -28173, -75575, -98982, -90963, -54064>>,
       <<0, 50000, 86603, 100000, 86603, 50000, 0, -50000, -86603, -100000, -86603, -50000>>,
       <<0, 46472, 82298, 99271, 93502, 66312, 23932, -23932, -66312, -93502, -99271, -82298, -46472>>,
       <<0, 43388, 78183, 97493, 97493, 78183, 43388, 0, -43388, -78183, -97493, -97493, -78183, -43388>>,
       <<0, 40674, 74314, 95106, 99452, 86603, 58779, 20791, -20791, -58779, -86603, -99452, -95106, -74314, -40674>>,
       <<0, 38268, 70711, 92388, 100000, 92388, 70711, 38268, 0, -38268, -70711, -92388, -100000, -92388, -70711, -38268>>,
       <<0, 36124, 67370, 89516, 99573, 96183, 79802, 52643, 18375, -18375, -52643, -79802, -96183, -99573, -89516, -67370, -36124>>,
       <<0, 34202, 64279, 86603, 98481, 98481, 86603, 64279, 34202, 0, -34202, -64279, -86603, -98481, -98481, -86603, -64279, -34202>>,
       <<0, 32470, 61421, 83717, 96940, 99658, 91577, 73572, 47595, 16459, -16459, -47595, -73572, -91577, -99658, -96940, -83717, -61421, -32470>>,
       <<0, 30902, 58779, 80902, 95106, 100000, 95106, 80902, 58779, 30902, 0, -30902, -58779, -80902, -95106, -100000, -95106, -80902, -58779, -30902>>,
       <<0, 29476, 56332, 78183, 93087, 99720, 97493, 86603, 68017, 43388, 14904, -14904, -43388, -68017, -86603, -97493, -99720, -93087, -78183, -56332, -29476>>,
       <<0, 28173, 54064, 75575, 90963, 98982, 98982, 90963, 75575, 54064, 28173, 0, -28173, -54064, -75575, -90963, -98982, -98982, -90963, -75575, -54064, -28173>>,
       <<0, 26980, 51958, 73084, 88789, 97908, 99767, 94226, 81697, 63109, 39840, 13617, -13617, -39840, -63109, -81697, -94226, -99767, -97908, -88789, -73084, -51958, -26980>>,
       <<0, 25882, 50000, 70711, 86603, 96593, 100000, 96593, 86603, 70711, 50000, 25882, 0, -25882, -50000, -70711, -86603, -96593, -100000, -96593, -86603, -70711, -50000, -25882>> >>

\* np.sin of a whole degree in 0..90, rounded to the nearest unit of RootScale
SinDegTable ==
    <<0, 175, 349, 523, 698, 872, 1045, 1219, 1392, 1564, 1736, 1908, 2079, 2250, 2419, 2588, 2756, 2924, 3090, 3256, 3420, 3584, 3746, 3907, 4067, 4226, 4384, 4540, 4695, 4848, 5000, 5150, 5299, 5446, 5592, 5736, 5878, 6018, 6157, 6293, 6428, 6561, 6691, 6820, 6947, 7071, 7193, 7314, 7431, 7547, 7660, 7771, 7880, 7986, 8090, 8192, 8290, 8387, 8480, 8572, 8660, 8746, 8829, 8910, 8988, 9063, 9135, 9205, 9272, 9336, 9397, 9455, 9511, 9563, 9613, 9659, 9703, 9744, 9781, 9816, 9848, 9877, 9903, 9925, 9945, 9962, 9976, 9986, 9994, 9998, 10000>>

Cos(N, i) == CosTable[N][(i % N) + 1]
Sin(N, i) == SinTable[N][(i % N) + 1]

\* the weight a double holds for a table entry r at index i: cos(0.0) is 1.0
\* and sin(0.0) is 0.0 exactly; every other weight is within one unit of its
\* table entry (np.sin(np.pi) is 1.2e-16, not 0.0)
Weight(r, i) ==
    IF i = 0 THEN Exact(r)
    ELSE <<Clip(r - 1, WeightScale), Clip(r + 1, WeightScale)>>

CosWeight(N, i) == Weight(Cos(N, i), i)
SinWeight(N, i) == Weight(Sin(N, i), i)

\* sin and cos of a whole degree in 0..90 at RootScale, from below and from
\* above; exact at 0 and 90 degrees
SinDeg(d) == SinDegTable[d + 1]
SinLo(d) == IF d = 0 \/ d = 90 THEN SinDeg(d) ELSE Max(0, SinDeg(d) - 1)
SinHi(d) == IF d = 0 \/ d = 90 THEN SinDeg(d) ELSE Min(RootScale, SinDeg(d) + 1)
CosLo(d) == SinLo(90 - d)
CosHi(d) == SinHi(90 - d)

RECURSIVE SumSeq(_, _)
SumSeq(s, n) == IF n = 0 THEN 0 ELSE s[n] + SumSeq(s, n - 1)

\* -a
Neg(a) == IF IsEnclosure(a) THEN <<-a[2], -a[1]>> ELSE a

\* a * b of two doubles; the product with an exact zero is an exact zero
Product(a, b) ==
    IF a = NotANumber \/ b = NotANumber THEN NotANumber
    ELSE IF a = Unknown \/ b = Unknown THEN Unknown
    ELSE IF a = Zero \/ b = Zero THEN Zero
    ELSE LET c == {a[i] * b[j] : i \in 1..2, j \in 1..2}
         IN  <<SetMin(c), SetMax(c)>>

\* floor and ceiling of a * b / k, computed without forming a * b
FloorMulDiv(a, b, k) == ((a \div k) * b) + (((a % k) * b) \div k)
CeilMulDiv(a, b, k) == -FloorMulDiv(a, -b, k)

\* a * b, at the scale of the product divided by k
ProductDown(a, b, k) ==
    IF a = NotANumber \/ b = NotANumber THEN NotANumber
    ELSE IF a = Unknown \/ b = Unknown THEN Unknown
    ELSE IF a = Zero \/ b = Zero THEN Zero
    ELSE <<SetMin({FloorMulDiv(a[i], b[j], k) : i \in 1..2, j \in 1..2}),
           SetMax({CeilMulDiv(a[i], b[j], k) : i \in 1..2, j \in 1..2})>>

\* the sum of a sequence of doubles.  A sum of exact zeros is an exact
\* zero; any other sum is rounded, and where its terms cancel it is the
\* residue of the rounding, so it is never taken to be a single number
Total(terms) ==
    LET n == Len(terms)
        lo == SumSeq([i \in 1..n |-> terms[i][1]], n)
        hi == SumSeq([i \in 1..n |-> terms[i][2]], n)
    IN  IF HasNaN(terms) THEN NotANumber
        ELSE IF HasUnknown(terms) THEN Unknown
        ELSE IF AllZero(terms) THEN Zero
        ELSE IF lo = hi THEN <<lo - 1, hi + 1>>
        ELSE <<lo, hi>>

\* a at a scale d times coarser
ScaleDown(a, d) ==
    IF ~IsEnclosure(a) \/ a = Zero THEN a
    ELSE <<FloorDiv(a[1], d), CeilDiv(a[2], d)>>

\* np.dot of two vectors of the same length
Dot(a, b) == Total([i \in 1..Len(a) |-> Product(a[i], b[i])])

Column(coordinates, i) == [j \in 1..Len(coordinates) |-> coordinates[j][i]]

\* coordinates - coordinates.mean(axis=0) (line 54), times the ring size
translate(coordinates) ==
    LET N == Len(coordinates)
        total == [i \in 1..3 |-> SumSeq(Column(coordinates, i), N)]
    IN  [j \in 1..N |-> [i \in 1..3 |-> N * coordinates[j][i] - total[i]]]

\* lines 62-65; the result has scale AxisScale
get_mean_plane(coordinates) ==
    LET N == Len(coordinates)
        s == [j \in 1..N |-> SinWeight(N, j - 1)]
        c == [j \in 1..N |-> CosWeight(N, j - 1)]
        d == N * (WeightScale \div AxisScale)
    IN  [R1 |-> [i \in 1..3 |-> ScaleDown(Dot(s, Exacts(Column(coordinates, i))), d)],
         R2 |-> [i \in 1..3 |-> ScaleDown(Dot(c, Exacts(Column(coordinates, i))), d)]]

\* a[j] * b[k] - a[k] * b[j], one component of np.cross, at the scale
\* AxisScale * AxisScale / 100
Minor(a, b, j, k) ==
    Total(<<ProductDown(a[j], b[k], 100), Neg(ProductDown(a[k], b[j], 100))>>)

\* np.cross
Cross(a, b) == << Minor(a, b, 2, 3), Minor(a, b, 3, 1), Minor(a, b, 1, 2) >>

\* the least and the greatest square of a number in the enclosure
MinSquare(a) == IF ContainsZero(a) THEN 0 ELSE Min(a[1] * a[1], a[2] * a[2])
MaxSquare(a) == Max(a[1] * a[1], a[2] * a[2])

\* the square root of the sum of the squares of the entries of v
RootSumSquares(v) ==
    LET n == Len(v)
    IN  IF HasNaN(v) THEN NotANumber
        ELSE IF HasUnknown(v) THEN Unknown
        ELSE IF AllZero(v) THEN Zero
        ELSE <<ISqrt(SumSeq([i \in 1..n |-> MinSquare(v[i])], n)),
               ISqrt(SumSeq([i \in 1..n |-> MaxSquare(v[i])], n)) + 1>>

\* np.linalg.norm
Norm(v) == RootSumSquares(v)

Magnitude(a) == Max(Abs(a[1]), Abs(a[2]))

\* a / n at scale m, for a component a of a vector of norm n: the quotient
\* lies between -1 and 1
Quotient(a, n, m) ==
    IF a = Zero THEN Zero
    ELSE << IF a[1] >= 0 THEN FloorDiv(a[1] * m, n[2])
            ELSE IF n[1] = 0 THEN -m
            ELSE Max(-m, FloorDiv(a[1] * m, n[1])),
            IF a[2] < 0 THEN CeilDiv(a[2] * m, n[2])
            ELSE IF n[1] = 0 THEN m
            ELSE Min(m, CeilDiv(a[2] * m, n[1])) >>

\* cross_product / np.linalg.norm(cross_product) (lines 74-75).  A cross
\* product of exact zeros has norm 0 and every component is 0 / 0: numpy
\* gives NaN (with a RuntimeWarning), it does not raise.  A cross product
\* of which every component may be zero is divided by a norm that may be
\* zero: the quotient is some unit vector or NaN.  Otherwise the components
\* are first brought below 20000, so that their squares can be summed.
Normalize(cross_product) ==
    LET d == (SetMax({Magnitude(cross_product[i]) : i \in 1..3}) \div 20000) + 1
        r == [i \in 1..3 |-> ScaleDown(cross_product[i], d)]
    IN  IF HasNaN(cross_product) \/ AllZero(cross_product)
        THEN <<NotANumber, NotANumber, NotANumber>>
        ELSE IF HasUnknown(cross_product) \/ \A i \in 1..3 : ContainsZero(cross_product[i])
        THEN <<Unknown, Unknown, Unknown>>
        ELSE [i \in 1..3 |-> Quotient(r[i], Norm(r), NormalScale)]

\* lines 72-75, on the value get_mean_plane returned
get_normal(coordinates) ==
    CHOOSE n \in { Normalize(Cross(axes.R1, axes.R2)) :
                    axes \in {get_mean_plane(coordinates)} } : TRUE

\* np.allclose(0, x, rtol=1e-06, atol=1e-08) (line 81): |x| <= atol + rtol*|x|
\* for every entry, as the set of the answers the doubles may give.  Exact
\* zeros are close; NaN and a number known not to be zero at LengthScale are
\* not (atol is far below one unit); an entry that may be zero is a residue
\* (close) or a small number (not close).
AllCloseZero(x) ==
    IF AllZero(x) THEN {TRUE}
    ELSE IF \E i \in 1..Len(x) : ~ContainsZero(x[i]) /\ x[i] # Unknown THEN {FALSE}
    ELSE BOOLEAN

\* line 81: the replacement is the one-element array [0.0]
fix_zero(x) ==
    { IF close THEN <<Zero>> ELSE x : close \in AllCloseZero(x) }

\* np.dot(coordinates, n) (lines 89-90) on the value get_normal returned;
\* scale LengthScale
displacement(coordinates) ==
    LET N == Len(coordinates)
        d == N * (NormalScale \div LengthScale)
    IN  CHOOSE z \in
            { [j \in 1..N |-> ScaleDown(Dot(Exacts(coordinates[j]), n), d)] :
              n \in {get_normal(coordinates)} } : TRUE

\* np.sqrt(a / b), scale RootScale
SqrtRatio(a, b) ==
    LET f == ISqrt((a * RootScale * RootScale) \div b)
    IN  <<f, f + 1>>

\* right_angle of a point (y, x) with x > 0, y >= 0: the whole degrees
\* below and above arctan(y / x)
DegFloor(y, x) == SetMax({d \in 0..90 : y * CosLo(d) >= x * SinHi(d)})
DegCeil(y, x) == SetMin({d \in 0..90 : y * CosHi(d) <= x * SinLo(d)})

PointLo(y, x) == IF y >= 0 THEN DegFloor(y, x) ELSE -DegCeil(-y, x)
PointHi(y, x) == IF y >= 0 THEN DegCeil(y, x) ELSE -DegFloor(-y, x)

\* np.arctan2(y, x) for x > 0: between -90 and 90 degrees, increasing in y,
\* and increasing in x where y < 0, decreasing where y > 0
RightAngle(y, x) ==
    << PointLo(y[1], IF y[1] >= 0 THEN x[2] ELSE x[1]),
       PointHi(y[2], IF y[2] >= 0 THEN x[1] ELSE x[2]) >>

\* np.arctan2(y, x) in whole degrees.  Of two exact zeros it is 0; of two
\* numbers that may both be zero it is any angle (of a residue and a zero,
\* or of two residues).  Otherwise the box lies in a half plane and the
\* angle is measured from the axis of that half plane; for x < 0 the angle
\* is given in 90..270 (an angle above 180 stands for the angle less 360).
Arctan2(y, x) ==
    IF y = NotANumber \/ x = NotANumber THEN NotANumber
    ELSE IF y = Unknown \/ x = Unknown THEN Unknown
    ELSE IF ContainsZero(y) /\ ContainsZero(x)
         THEN (IF y = Zero /\ x = Zero THEN Zero ELSE <<-180, 180>>)
    ELSE IF x[1] > 0 THEN RightAngle(y, x)
    ELSE IF x[2] < 0
         THEN <<180 - RightAngle(y, Neg(x))[2], 180 - RightAngle(y, Neg(x))[1]>>
    ELSE IF y[1] > 0
         THEN <<90 - RightAngle(x, y)[2], 90 - RightAngle(x, y)[1]>>
    ELSE <<RightAngle(x, Neg(y))[1] - 90, RightAngle(x, Neg(y))[2] - 90>>

\* np.sqrt(qsin**2 + qcos**2), elementwise
Hypot(a, b) == RootSumSquares(<<a, b>>)

\* numpy broadcasting of two arrays in an elementwise operation: a
\* one-element array is stretched to the length of the other operand
BroadcastLen(a, b) == IF Len(a) = 1 THEN Len(b) ELSE Len(a)
Stretch(a, n) == [i \in 1..n |-> IF Len(a) = 1 THEN a[1] ELSE a[i]]

\* np.arctan2(qsin, qcos) (lines 109, 119) wrapped by
\* np.where(angle_rad < 0, angle_rad + 2 * np.pi, angle_rad) (lines 110, 120).
\* An angle known to be negative is wrapped; an angle that may be negative
\* or not is near 0 or near 360.
PhaseAngle(qsin, qcos) ==
    LET a == Arctan2(qsin, qcos)
    IN  IF ~IsEnclosure(a) THEN a
        ELSE IF a[2] <= 0 /\ qsin[2] < 0 THEN <<a[1] + 360, a[2] + 360>>
        ELSE IF a[1] < 0 THEN <<0, 360>>
        ELSE a

\* `4 < N <= 20` (line 100)
\* (RingSizeSupportedBelowTwenty: the upper limit excluded)
RingSizeSupportedBelowTwenty(N) == 4 < N /\ N < 20
RingSizeSupported(N) == 4 < N /\ N <= 20

\* range(2, int(N / 2)) (line 102) and range(2, int((N - 1) / 2) + 1) (line 113),
\* as the sequence of the k visited
HarmonicsOf(N) ==
    LET last == IF N % 2 = 0 THEN (N \div 2) - 1 ELSE (N - 1) \div 2
    IN  [i \in 1..(IF last >= 2 THEN last - 1 ELSE 0) |-> i + 1]

\* a weight at HarmonicScale
HarmonicWeight(w) == ScaleDown(w, WeightScale \div HarmonicScale)

\* np.dot(z, np.cos(2 * np.pi * k * np.arange(0, N) / N)) (lines 103, 114) and
\* the sine counterpart (lines 104, 115), at LengthScale
cos_component(z, N, k) ==
    ScaleDown(Dot(z, [j \in 1..N |-> HarmonicWeight(CosWeight(N, k * (j - 1)))]),
              HarmonicScale)
sin_component(z, N, k) ==
    ScaleDown(Dot(z, [j \in 1..N |-> HarmonicWeight(SinWeight(N, k * (j - 1)))]),
              HarmonicScale)

\* np.sqrt(2 / N) * x and -np.sqrt(2 / N) * x (lines 105-106, 116-117), with
\* the factor f at RootScale
ScaleBy(f, x) == ScaleDown(Product(f, x), RootScale)

\* (1 / np.sqrt(N)) * np.dot(z, np.cos(np.arange(0, N) * np.pi)).sum() (line 108):
\* the cosines of the multiples of pi are 1.0 and -1.0 exactly
extra_term(z, N) ==
    ScaleBy(SqrtRatio(1, N),
            Dot(z, [j \in 1..N |-> Exact(IF (j - 1) % 2 = 0 THEN 1 ELSE -1)]))

RingSizeMessage == "Ring Size is too big or too small"

\* qcos and qsin before fix_zero (lines 103-106, 114-117)
q_cosines(z, N) ==
    [i \in 1..Len(HarmonicsOf(N)) |->
        ScaleBy(SqrtRatio(2, N), cos_component(z, N, HarmonicsOf(N)[i]))]
q_sines(z, N) ==
    [i \in 1..Len(HarmonicsOf(N)) |->
        ScaleBy(Neg(SqrtRatio(2, N)), sin_component(z, N, HarmonicsOf(N)[i]))]

\* lines 107-111 and 118-121: the three arrays returned, from qsin, qcos and
\* (even N) the extra term
pucker_arrays(N, qsin, qcos, extra) ==
    LET n == BroadcastLen(qsin, qcos)
        q == [i \in 1..n |-> Hypot(Stretch(qsin, n)[i], Stretch(qcos, n)[i])]
        angle_rad == [i \in 1..n |-> PhaseAngle(Stretch(qsin, n)[i], Stretch(qcos, n)[i])]
    IN  [err |-> "none", printed |-> "",
         amplitude |-> IF N % 2 = 1 THEN q ELSE Append(q, extra),
         angle_deg |-> angle_rad, angle_rad |-> angle_rad]

\* lines 92-124, as the set of the results the doubles may give: one result,
\* except where fix_zero is applied to residues.  Outside the supported
\* sizes the function prints and falls through to
\* `return amplitude, angle_deg, angle_rad` with the three locals never
\* assigned, which raises UnboundLocalError.
get_ring_pucker_coords(coordinates) ==
    LET N == Len(coordinates)
    IN  IF RingSizeSupported(N)
        THEN UNION
                { IF N % 2 = 1
                  THEN { pucker_arrays(N, s, c, Zero) :
                           s \in fix_zero(q_sines(z, N)), c \in fix_zero(q_cosines(z, N)) }
                  ELSE { pucker_arrays(N, q_sines(z, N), q_cosines(z, N), extra_term(z, N)) } :
                  z \in {displacement(coordinates)} }
        ELSE { [err |-> "UnboundLocalError", printed |-> RingSizeMessage,
                amplitude |-> <<>>, angle_deg |-> <<>>, angle_rad |-> <<>>] }

\* np.sqrt(np.square(amplitude).sum()) (lines 132, 140)
get_total_puckering_amplitude(amplitude) == RootSumSquares(amplitude)

\* lines 134-147.  The only failures are the IndexErrors of amplitude[0],
\* amplitude[1] and angle_deg[0]; a longer amplitude array is read at its
\* first two entries.
get_spherical_polar_set_n6(amplitude, angle_deg) ==
    IF Len(amplitude) < 2 \/ Len(angle_deg) < 1
    THEN [err |-> "IndexError", Q |-> Zero, theta_deg |-> Zero, phi_deg |-> Zero]
    ELSE [err |-> "none",
          Q |-> get_total_puckering_amplitude(amplitude),
          theta_deg |-> Arctan2(amplitude[1], amplitude[2]),
          phi_deg |-> angle_deg[1]]

(***************************************************************************)
(* Ring geometries given to the engine: a regular N-gon of radius 10 in    *)
(* the xy plane, shifted by off on every axis, with out-of-plane heights   *)
(* by kind; and the two degenerate rings (all atoms at one point, all      *)
(* atoms on one line).                                                     *)
(***************************************************************************)
RingKinds == {"flat", "flap", "skew", "twist", "alt", "coincident", "collinear"}

Height(N, kind, j) ==
    CASE kind = "flap"  -> IF j = 0 THEN 4 ELSE IF j = 1 \/ j = N - 1 THEN -2 ELSE 0
      [] kind = "skew"  -> IF j = 1 THEN 3 ELSE IF j = N - 1 THEN -3 ELSE 0
      [] kind = "twist" -> IF j = 1 THEN 3 ELSE IF j = 2 THEN -3 ELSE 0
      [] kind = "alt"   -> IF j % 2 = 0 THEN 3 ELSE -3
      [] OTHER          -> 0

RingGeometry(N, kind, off) ==
    [j \in 1..N |->
        CASE kind = "coincident" -> <<3, -2, 5>>
          [] kind = "collinear"  -> <<(j - 1) + off, (j - 1) + off, off>>
          [] OTHER -> << DivRound(10 * Cos(N, j - 1), WeightScale) + off,
                         DivRound(10 * Sin(N, j - 1), WeightScale) + off,
                         Height(N, kind, j - 1) + off >>]

(***************************************************************************)
(* Values of the variables a specification does not use.                   *)
(***************************************************************************)
ClassifierIdle ==
    /\ theta_in = 0 /\ phi_in = 0 /\ turns = <<0, 0>>
    /\ label = "idle" /\ label_shifted = "idle"

\* before get_ring_pucker_coords / get_spherical_polar_set_n6 has been called
NoPucker ==
    [err |-> "pending", printed |-> "", amplitude |-> <<>>, angle_deg |-> <<>>, angle_rad |-> <<>>]
NoPolar == [err |-> "pending", Q |-> Zero, theta_deg |-> Zero, phi_deg |-> Zero]

EngineIdle == ring = <<>> /\ pucker = NoPucker /\ polar = NoPolar

DriverIdle ==
    /\ argc = 0 /\ tree = "idle" /\ pc = "idle" /\ idx = 0 /\ results = <<>>
    /\ handled = <<>> /\ calls = <<>>
    /\ json_file = "idle" /\ raw_data = "idle" /\ ret = "idle"

(***************************************************************************)
(* SpecClassify: conformation_haversine applied to a query and to the      *)
(* query shifted by whole turns.                                           *)
(***************************************************************************)
MaxTurns == 1

\* theta every 15 degrees of [-180, 180), phi every 15 degrees of [-60, 360);
\* angles between whole degrees, of either sign; the angles next to the
\* classifier's boundaries; the two tiny doubles; NaN
ThetaInputs ==
    {Deg(15 * i) : i \in -12..11}
        \cup {-315, -179, -45, -1, 1, 45, 89, 91, 135, 181, 225, 315}
        \cup {TinyNegative, TinyPositive, NaN}
PhiInputs ==
    {Deg(15 * i) : i \in -4..23}
        \cup {Deg(5), Deg(10), Deg(350), Deg(355)}
        \cup {-719, -45, -1, 1, 29, 31, 45, 719}
        \cup {TinyNegative, TinyPositive, NaN}

InitClassify ==
    /\ theta_in \in ThetaInputs
    /\ phi_in \in PhiInputs
    /\ turns \in (-MaxTurns..MaxTurns) \X (-MaxTurns..MaxTurns)
    /\ label = "pending"
    /\ label_shifted = "pending"
    /\ EngineIdle
    /\ DriverIdle

Classify ==
    /\ label = "pending"
    /\ label' = conformation_haversine(<<>>, theta_in, phi_in)
    /\ UNCHANGED <<theta_in, phi_in, turns, label_shifted, engine_vars, driver_vars>>

ClassifyShifted ==
    /\ label # "pending"
    /\ label_shifted = "pending"
    /\ label_shifted' = conformation_haversine(<<>>, Add(theta_in, Deg(180) * turns[1]),
                                               Add(phi_in, Deg(360) * turns[2]))
    /\ UNCHANGED <<theta_in, phi_in, turns, label, engine_vars, driver_vars>>

NextClassify == Classify \/ ClassifyShifted

SpecClassify == InitClassify /\ [][NextClassify]_vars

(***************************************************************************)
(* SpecEngine: get_ring_pucker_coords and get_spherical_polar_set_n6       *)
(* applied to rings of 1..MaxRing atoms.                                   *)
(***************************************************************************)
MaxRing == 22

RingInputs ==
    { RingGeometry(N, kind, off) :
        <<N, kind, off>> \in
            { c \in (1..MaxRing) \X RingKinds \X {0, 7} :
                c[1] >= 3 \/ c[2] \notin {"flap", "skew", "twist"} } }

InitEngine ==
    /\ ring \in RingInputs
    /\ pucker = NoPucker
    /\ polar = NoPolar
    /\ ClassifierIdle
    /\ DriverIdle

ComputePucker ==
    /\ pucker.err = "pending"
    /\ \E out \in get_ring_pucker_coords(translate(ring)) : pucker' = out
    /\ UNCHANGED <<ring, polar, classifier_vars, driver_vars>>

\* an exception of get_ring_pucker_coords ends the computation
ComputePolar ==
    /\ pucker.err = "none"
    /\ polar.err = "pending"
    /\ polar' = get_spherical_polar_set_n6(pucker.amplitude, pucker.angle_deg)
    /\ UNCHANGED <<ring, pucker, classifier_vars, driver_vars>>

NextEngine == ComputePucker \/ ComputePolar

SpecEngine == InitEngine /\ [][NextEngine]_vars

(***************************************************************************)
(* BatchDriver: parse_xyz_to_df, get_ring_coord, get_pucker_values,        *)
(* analyze_system (src/ring_analysis.py) and save_results, main            *)
(* (src/main.py).                                                          *)
(*                                                                         *)
(* A file is its chirality folder, the name of its parent folder, and its  *)
(* lines; a line is the sequence of its whitespace-separated tokens; a     *)
(* token is a word or a numeral.                                           *)
(***************************************************************************)
Word(w) == [word |-> w]
Numeral(n) == [numeral |-> n]
IsNumeral(tok) == "numeral" \in DOMAIN tok

\* ring_indices (lines 7-17): 0-based row numbers
ring_indices ==
    ("cGlyGly"   :> <<0, 1, 2, 3, 4, 5>>) @@
    ("cAlaAla"   :> <<4, 3, 2, 1, 0, 5>>) @@
    ("cHisHis"   :> <<0, 1, 2, 3, 4, 5>>) @@
    ("cHisHis2+" :> <<0, 1, 2, 3, 4, 5>>) @@
    ("cPhgPhg"   :> <<2, 1, 0, 5, 4, 3>>) @@
    ("cLeuLeu"   :> <<0, 4, 5, 3, 2, 1>>) @@
    ("cValVal"   :> <<4, 3, 2, 1, 0, 5>>) @@
    ("cTrpTrp"   :> <<0, 1, 2, 3, 4, 5>>) @@
    ("cPhePhe"   :> <<0, 5, 4, 3, 2, 1>>)

\* the exception one line raises in the loop of lines 32-36: parts[0] on a
\* blank line, the unpacking of fewer than three values, float() of a word
LineError(parts) ==
    IF Len(parts) = 0 THEN "IndexError"
    ELSE IF Len(parts) < 4 THEN "ValueError"
    ELSE IF \E i \in 2..4 : ~IsNumeral(parts[i]) THEN "ValueError"
    ELSE "none"

\* lines 19-40: readlines()[2:], one row [atom, x, y, z] per line
parse_xyz_to_df(file_lines) ==
    LET lines == SubSeq(file_lines, 3, Len(file_lines))
        bad == {i \in 1..Len(lines) : LineError(lines[i]) # "none"}
        first == CHOOSE i \in bad : \A j \in bad : i <= j
    IN  IF bad # {}
        THEN [err |-> LineError(lines[first]), num_atoms |-> 0, df |-> <<>>]
        ELSE [err |-> "none", num_atoms |-> Len(lines),
              df |-> [i \in 1..Len(lines) |->
                        [Atom |-> lines[i][1], X |-> lines[i][2].numeral,
                         Y |-> lines[i][3].numeral, Z |-> lines[i][4].numeral]]]

\* df.iloc[indices] (line 46): a position past the last row raises IndexError
get_ring_coord(df, indices) ==
    IF \E k \in 1..Len(indices) : indices[k] >= Len(df)
    THEN [err |-> "IndexError", rows |-> <<>>]
    ELSE [err |-> "none", rows |-> [k \in 1..Len(indices) |-> df[indices[k] + 1]]]

\* ring_atoms[['X', 'Y', 'Z']].values (line 201)
XYZValues(rows) == [k \in 1..Len(rows) |-> <<rows[k].X, rows[k].Y, rows[k].Z>>]

NoValues ==
    [amplitude |-> <<>>, angle_deg |-> <<>>, Q |-> Zero, theta_deg |-> Zero,
     phi_deg |-> Zero, conformation |-> None]

\* the whole degrees of an enclosure of an angle
Angles(a) == IF a = NotANumber THEN {NaN} ELSE a[1]..a[2]

UndecidedLabel == "decided by rounding"

\* conformation_haversine(amplitude, theta_deg, phi_deg) (line 207) on the
\* angles the engine returned: the label every whole degree of the
\* enclosures gets, and UndecidedLabel if these get several labels, or if
\* theta is not known to within 30 degrees (the classification is decided
\* below the resolution of the angles)
conformation_of(amplitude, theta_deg, phi_deg) ==
    IF theta_deg = Unknown \/ phi_deg = Unknown THEN UndecidedLabel
    ELSE IF theta_deg # NotANumber /\ theta_deg[2] - theta_deg[1] > 30 THEN UndecidedLabel
    ELSE LET found == { conformation_haversine(amplitude, Deg(t), Deg(p)) :
                          t \in Angles(theta_deg), p \in Angles(phi_deg) }
         IN  IF Cardinality(found) = 1 THEN CHOOSE l \in found : TRUE
             ELSE UndecidedLabel

\* lines 208-215
PuckerRecord(p, s) ==
    [err |-> "none",
     values |-> [amplitude |-> p.amplitude, angle_deg |-> p.angle_deg,
                 Q |-> s.Q, theta_deg |-> s.theta_deg, phi_deg |-> s.phi_deg,
                 conformation |->
                     conformation_of(p.amplitude, s.theta_deg, s.phi_deg)]]

\* lines 205-216 on the value get_ring_pucker_coords returned
PolarAndLabel(p) ==
    CHOOSE out \in
        { IF s.err # "none" THEN [err |-> s.err, values |-> NoValues]
          ELSE PuckerRecord(p, s) :
          s \in {get_spherical_polar_set_n6(p.amplitude, p.angle_deg)} } : TRUE

\* lines 190-216, one statement after the other, each on the value the
\* previous one returned; the first exception raised ends the computation.
\* The set of the results, one per result of get_ring_pucker_coords.
get_pucker_values(df, system_name) ==
    UNION
        { IF ring_atoms.err # "none"
          THEN { [err |-> ring_atoms.err, values |-> NoValues] }
          ELSE { IF p.err # "none" THEN [err |-> p.err, values |-> NoValues]
                 ELSE PolarAndLabel(p) :
                 p \in get_ring_pucker_coords(translate(XYZValues(ring_atoms.rows))) } :
          ring_atoms \in {get_ring_coord(df, ring_indices[system_name])} }

\* lines 238-250 for a file of a registered system, as the set of the
\* outcomes
TryFile(file) ==
    UNION
        { IF parsed.err # "none"
          THEN { [outcome |-> "error", err |-> parsed.err, result |-> <<>>] }
          ELSE { IF v.err # "none"
                 THEN [outcome |-> "error", err |-> v.err, result |-> <<>>]
                 ELSE [outcome |-> "appended", err |-> "none",
                       result |-> << [system_name |-> file.system_name,
                                      chirality |-> file.chirality,
                                      puckering_values |-> v.values] >>] :
                 v \in get_pucker_values(parsed.df, file.system_name) } :
          parsed \in {parse_xyz_to_df(file.lines)} }

\* the body of the loop over xyz_files (lines 230-250) for one file: what is
\* printed ("skipped", "error", or nothing) and the result appended, if any,
\* as the set of the outcomes
ProcessFile(file) ==
    IF file.system_name \notin DOMAIN ring_indices
    THEN { [outcome |-> "skipped", err |-> "none", result |-> <<>>] }
    ELSE TryFile(file)

\* `continue` (lines 236, 243) and the end of the loop body: the position of
\* the file handled next, in a list of n files
\* (AbortBatch: the loop is left instead)
AbortBatch(i, n) == n + 1
NextFile(i, n) == i + 1

\* key = f"{system}_{chirality}" (line 42)
ExportKey(result) == result.system_name \o "_" \o result.chirality

\* export_dict[key] = {...} (lines 44-49): a dict keeps one value per key, at
\* the position of the key's first insertion
DictSet(d, key, value) ==
    IF \E i \in 1..Len(d) : d[i].key = key
    THEN [i \in 1..Len(d) |-> IF d[i].key = key THEN [key |-> key, value |-> value] ELSE d[i]]
    ELSE Append(d, [key |-> key, value |-> value])

RECURSIVE ExportFrom(_, _, _)
ExportFrom(rs, i, d) ==
    IF i > Len(rs) THEN d
    ELSE ExportFrom(rs, i + 1,
                    DictSet(d, ExportKey(rs[i]),
                            [Amplitude    |-> rs[i].puckering_values.Q,
                             theta        |-> rs[i].puckering_values.theta_deg,
                             phi          |-> rs[i].puckering_values.phi_deg,
                             conformation |-> rs[i].puckering_values.conformation]))

export_dict(rs) == ExportFrom(rs, 1, <<>>)

\* json.dump (line 53) and json.load (plotting.py line 26) of one value: a
\* float is written as its repr, NaN as the bare word NaN, None as null, a
\* string in quotes
JsonNumber(x) == IF x = NotANumber THEN [json |-> "NaN"] ELSE [json |-> "number", repr |-> x]
JsonString(s) == IF s = None THEN [json |-> "null"] ELSE [json |-> "string", chars |-> s]
JsonValue(tok) ==
    CASE tok.json = "NaN"    -> NotANumber
      [] tok.json = "null"   -> None
      [] tok.json = "number" -> tok.repr
      [] tok.json = "string" -> tok.chars

json_dump(d) ==
    [i \in 1..Len(d) |->
        [key |-> d[i].key,
         Amplitude    |-> JsonNumber(d[i].value.Amplitude),
         theta        |-> JsonNumber(d[i].value.theta),
         phi          |-> JsonNumber(d[i].value.phi),
         conformation |-> JsonString(d[i].value.conformation)]]

\* the mapping read back: key -> record
json_load(text) ==
    [k \in {text[i].key : i \in 1..Len(text)} |->
        LET e == text[CHOOSE i \in 1..Len(text) : text[i].key = k]
        IN  [Amplitude |-> JsonValue(e.Amplitude), theta |-> JsonValue(e.theta),
             phi |-> JsonValue(e.phi), conformation |-> JsonValue(e.conformation)]]

\* save_results (lines 34-55): the content of puckering_data.json
save_results(rs) == [exists |-> TRUE, text |-> json_dump(export_dict(rs))]

NoFile == [exists |-> FALSE, text |-> <<>>]
NotLoaded == [loaded |-> FALSE, data |-> <<>>]

(***************************************************************************)
(* The directory trees main is run on.                                     *)
(***************************************************************************)
MaxFiles == 2

Chiralities == <<"SS", "SR">>

\* six ring atoms followed by two hydrogens
Atoms(kind) ==
    LET g == RingGeometry(6, kind, 0)
    IN  [j \in 1..6 |-> <<Word("C"), Numeral(g[j][1]), Numeral(g[j][2]), Numeral(g[j][3])>>]
        \o << <<Word("H"), Numeral(0), Numeral(0), Numeral(9)>>,
              <<Word("H"), Numeral(0), Numeral(0), Numeral(-9)>> >>

Header(n) == << <<Numeral(n)>>, <<Word("comment")>> >>

\* the lines of an .xyz file: a well-formed file of a puckered, planar or
\* degenerate ring, a file of four atoms, a file with a coordinate that is
\* no number
XyzLines(body) ==
    CASE body = "short"     -> Header(4) \o SubSeq(Atoms("flap"), 1, 4)
      [] body = "malformed" ->
            Header(8) \o [Atoms("flap") EXCEPT ![3] = <<Word("C"), Numeral(1), Word("1.0.0"), Numeral(2)>>]
      [] OTHER              -> Header(8) \o Atoms(body)

FileKinds ==
    ({"cGlyGly"} \X {"flap", "skew", "flat", "coincident", "short", "malformed"})
        \cup ({"cAlaAla"} \X {"flap", "skew"})
        \cup ({"cFooFoo"} \X {"flap"})

XyzFiles ==
    { [chirality |-> c, system_name |-> k[1], lines |-> XyzLines(k[2])] :
        c \in {"SS", "SR"}, k \in FileKinds }

\* xyz_files of SS are visited before those of SR (line 221)
InBatchOrder(files) ==
    \A i, j \in 1..Len(files) :
        i < j => ~(files[i].chirality = "SR" /\ files[j].chirality = "SS")

FileLists ==
    { fs \in UNION {[1..n -> XyzFiles] : n \in 0..MaxFiles} : InBatchOrder(fs) }

\* root, SS, SR: the data folder and its chirality folders exist;
\* output_ok: the output folder exists or can be created
Trees ==
    { [root |-> r, SS |-> ss, SR |-> sr, files |-> fs, output_ok |-> o] :
        r \in BOOLEAN, ss \in BOOLEAN, sr \in BOOLEAN, fs \in FileLists, o \in BOOLEAN }

\* a folder that holds a file exists; folders of a missing root do not
WellFormedTree(t) ==
    /\ \A i \in 1..Len(t.files) : t[t.files[i].chirality]
    /\ ~t.root => ~t.SS /\ ~t.SR

\* xyz_files of both passes of the loop of line 221, in the order visited:
\* a chirality folder that does not exist contributes nothing (lines 225, 251)
batch_files(t) ==
    LET found(c) == IF t[c] THEN SelectSeq(t.files, LAMBDA f : f.chirality = c) ELSE <<>>
    IN  found(Chiralities[1]) \o found(Chiralities[2])

\* data_path.is_dir() (line 71)
\* (DirectoryCheckSkipped: no check)
DirectoryCheckSkipped(t) == TRUE
DirectoryFound(t) == t.root

Range(s) == {s[i] : i \in 1..Len(s)}

(***************************************************************************)
(* Spec: one run of main.  pc is the position in main; handled records,    *)
(* per file visited, what analyze_system did with it.                      *)
(***************************************************************************)
Init ==
    /\ argc \in 1..3
    /\ tree \in {t \in Trees : WellFormedTree(t)}
    /\ pc = "main"
    /\ idx = 0
    /\ results = <<>>
    /\ handled = <<>>
    /\ calls = <<>>
    /\ json_file = NoFile
    /\ raw_data = NotLoaded
    /\ ret = "running"
    /\ ClassifierIdle
    /\ EngineIdle

\* lines 59-61: sys.exit(1) raises SystemExit, which main does not catch
Usage ==
    /\ pc = "main"
    /\ argc # 2
    /\ pc' = "exited"
    /\ ret' = "SystemExit(1)"
    /\ UNCHANGED <<argc, tree, idx, results, handled, calls, json_file, raw_data,
                   classifier_vars, engine_vars>>

\* lines 66-67: output_dir.mkdir(exist_ok=True) is outside the try block, so
\* its OSError (the path is a file, or may not be created) leaves main
OutputDirBlocked ==
    /\ pc = "main"
    /\ argc = 2
    /\ ~tree.output_ok
    /\ pc' = "raised"
    /\ ret' = "OSError"
    /\ UNCHANGED <<argc, tree, idx, results, handled, calls, json_file, raw_data,
                   classifier_vars, engine_vars>>

\* lines 63-72 and 91-93: FileNotFoundError, caught, return False
DirectoryMissing ==
    /\ pc = "main"
    /\ argc = 2
    /\ tree.output_ok
    /\ ~DirectoryFound(tree)
    /\ pc' = "done"
    /\ ret' = "False"
    /\ UNCHANGED <<argc, tree, idx, results, handled, calls, json_file, raw_data,
                   classifier_vars, engine_vars>>

\* lines 63-75: the call of analyze_system
StartAnalysis ==
    /\ pc = "main"
    /\ argc = 2
    /\ tree.output_ok
    /\ DirectoryFound(tree)
    /\ pc' = "analyze"
    /\ idx' = 1
    /\ calls' = Append(calls, "analyze_system")
    /\ UNCHANGED <<argc, tree, results, handled, json_file, raw_data, ret,
                   classifier_vars, engine_vars>>

\* ring_analysis.py lines 230-250: one pass of the loop over the files
AnalyzeFile ==
    /\ pc = "analyze"
    /\ idx <= Len(batch_files(tree))
    /\ \E r \in ProcessFile(batch_files(tree)[idx]) :
          /\ results' = results \o r.result
          /\ handled' = Append(handled, r.outcome)
          /\ idx' = IF r.outcome = "appended" THEN idx + 1
                    ELSE NextFile(idx, Len(batch_files(tree)))
    /\ UNCHANGED <<argc, tree, pc, calls, json_file, raw_data, ret,
                   classifier_vars, engine_vars>>

\* lines 76-77 and 94-96: ValueError, caught, return False
NoResults ==
    /\ pc = "analyze"
    /\ idx > Len(batch_files(tree))
    /\ results = <<>>
    /\ pc' = "done"
    /\ ret' = "False"
    /\ UNCHANGED <<argc, tree, idx, results, handled, calls, json_file, raw_data,
                   classifier_vars, engine_vars>>

\* line 81
SaveResults ==
    /\ pc = "analyze"
    /\ idx > Len(batch_files(tree))
    /\ results # <<>>
    /\ calls' = Append(calls, "save_results")
    /\ json_file' = save_results(results)
    /\ pc' = "plot"
    /\ UNCHANGED <<argc, tree, idx, results, handled, raw_data, ret,
                   classifier_vars, engine_vars>>

\* lines 84-89 and 97-99: plot_puckering_distribution reads the file back;
\* drawing and saving the figure either succeed (return True) or raise
\* (caught, return False)
Plot ==
    /\ pc = "plot"
    /\ calls' = Append(calls, "plot_puckering_distribution")
    /\ raw_data' = [loaded |-> TRUE, data |-> json_load(json_file.text)]
    /\ \E drawn \in BOOLEAN : ret' = IF drawn THEN "True" ELSE "False"
    /\ pc' = "done"
    /\ UNCHANGED <<argc, tree, idx, results, handled, json_file,
                   classifier_vars, engine_vars>>

Next ==
    \/ Usage
    \/ OutputDirBlocked
    \/ DirectoryMissing
    \/ StartAnalysis
    \/ AnalyzeFile
    \/ NoResults
    \/ SaveResults
    \/ Plot

Spec == Init /\ [][Next]_vars

(***************************************************************************)
(* Properties of the classifier (SpecClassify).                            *)
(***************************************************************************)
Classified == label # "pending"

\* squared distance from the query to the nearest landmark of family k
FamilyDistance2(k, th, ph) ==
    LET refs == RefsOf(conformations[k], ph)
        ds == {Distance2(th, ph, refs[i]) : i \in 1..Len(refs)}
    IN  CHOOSE d \in ds : \A e \in ds : ~Less(e, d)

\* the family enumerated first among those at minimum distance
FirstNearestFamily(th, ph) ==
    LET K == 1..Len(conformations)
        nearest == {k \in K : \A j \in K :
                       ~Less(FamilyDistance2(j, th, ph), FamilyDistance2(k, th, ph))}
    IN  conformations[CHOOSE k \in nearest : \A j \in nearest : k <= j].name

\* C1: for every input pair conformation_haversine returns one of the five
\* labels, never None, and the label is the family owning a landmark at
\* minimum distance from the normalized query, the family enumerated first
\* when several are at the minimum.  Stated here for the pairs of finite
\* angles (what NaN angles give is the subject of C4).
C1_NearestFamilyFirstEnumerated ==
    (Classified /\ ~IsNaN(theta_in) /\ ~IsNaN(phi_in)) =>
        /\ label \in Labels
        /\ label = FirstNearestFamily(NormalizeTheta(theta_in), NormalizePhi(phi_in))

\* theta + 180 * k1 and phi + 360 * k2 as the caller's doubles hold them
ShiftedTheta == Add(theta_in, Deg(180) * turns[1])
ShiftedPhi == Add(phi_in, Deg(360) * turns[2])

\* the double sum a + b is the real sum: nothing was rounded away
ExactSum(a, b) == ~(IsTiny(a) /\ b # 0) /\ ~(IsTiny(b) /\ a # 0)

\* C8 as stated: conformation_haversine(theta, phi) and
\* conformation_haversine(theta + 180*k1, phi + 360*k2) return the same label
\* for every theta, phi and all integers k1, k2.
C8_PeriodicAsStated ==
    label_shifted # "pending" => label_shifted = label

\* C8 amended: conformation_haversine(theta, phi) and
\* conformation_haversine(theta + 180*k1, phi + 360*k2) return the same label
\* for all integers k1, k2 and every theta, phi whose sums theta + 180*k1 and
\* phi + 360*k2 are exact in double precision.
C8_PeriodicInExactTurns ==
    ( /\ label_shifted # "pending"
      /\ ExactSum(theta_in, Deg(180) * turns[1])
      /\ ExactSum(phi_in, Deg(360) * turns[2]) )
    => label_shifted = label

\* a negative theta between whole degrees and a negative phi, shifted by one
\* turn each way
C8_Witness ==
    /\ theta_in = -179 /\ phi_in = Deg(-15)
    /\ turns = <<1, -1>>
    /\ ShiftedTheta = 181 /\ ShiftedPhi = Deg(-375)
    /\ label = "Twist-Boat (TB)"
    /\ label_shifted = "Twist-Boat (TB)"

BoatLandmarks == {Deg(0), Deg(60), Deg(120), Deg(180), Deg(240), Deg(300)}

\* angular distance of two phi on the 360-degree circle, in half degrees
\* (the tiny positive is nearer to 0 than to any other half degree)
CircularDistance(a, b) ==
    LET d == Abs((IF a = TinyPositive THEN 0 ELSE a) - b) % Deg(360)
    IN  IF d > Deg(180) THEN Deg(360) - d ELSE d

\* C9: for theta = 90 and every phi in [0, 360) less than 15 degrees away,
\* on the circle, from the nearest Boat landmark, conformation_haversine
\* returns "Boat (B)".
C9_BoatNearBoatLandmark ==
    ( /\ Classified
      /\ theta_in = Deg(90)
      /\ phi_in = TinyPositive \/ phi_in \in 0..(Deg(360) - 1)
      /\ \E b \in BoatLandmarks : CircularDistance(phi_in, b) < Deg(15) )
    => label = "Boat (B)"

(***************************************************************************)
(* Properties of the puckering engine (SpecEngine).                        *)
(***************************************************************************)
\* C3: for every ring size outside 5..20 get_ring_pucker_coords rejects the
\* ring with an error raised for the invalid size (it prints the ring-size
\* message and raises) and returns no amplitudes or angles; for every size in
\* 5..20 it returns amplitudes and angles without raising.
C3_RingSizeRange ==
    pucker.err # "pending" =>
        IF Len(ring) \in 5..20
        THEN pucker.err = "none" /\ pucker.printed = ""
        ELSE /\ pucker.err # "none"
             /\ pucker.printed = RingSizeMessage
             /\ pucker.amplitude = <<>> /\ pucker.angle_deg = <<>> /\ pucker.angle_rad = <<>>
             /\ polar.err = "pending"

C3_Witness ==
    /\ Len(ring) = 21
    /\ pucker.err = "UnboundLocalError"

\* C5: get_spherical_polar_set_n6 returns (Q, theta, phi) only when the
\* amplitude sequence has exactly 2 entries; for any other length it fails
\* and returns no values.
C5_ExactlyTwoAmplitudes ==
    polar.err # "pending" => (polar.err = "none" <=> Len(pucker.amplitude) = 2)

\* the harmonics of a ring of N atoms: k = 2 .. (N-1)/2 when N is odd,
\* k = 2 .. N/2 - 1 and the extra term k = N/2 when N is even
HarmonicCount(N) == IF N % 2 = 1 THEN Len(HarmonicsOf(N)) ELSE Len(HarmonicsOf(N)) + 1

\* C10: for every ring size N in 5..20 and every displacement vector, the
\* vectors for which the odd-N snap-to-zero rule fires included,
\* get_ring_pucker_coords returns an amplitude sequence with one entry per
\* harmonic k (floor((N-1)/2) entries when N is odd and floor(N/2) when N is
\* even, a count that takes k from 1; the harmonics start at k = 2 and
\* either count is accepted here), and an angle sequence with one entry
\* fewer than the amplitude sequence when N is even and as many when N is
\* odd.
C10_OneAmplitudePerHarmonic ==
    pucker.err = "none" =>
        LET N == Len(ring)
        IN  /\ Len(pucker.amplitude) \in
                   {HarmonicCount(N), IF N % 2 = 1 THEN (N - 1) \div 2 ELSE N \div 2}
            /\ Len(pucker.angle_deg) =
                   (IF N % 2 = 0 THEN Len(pucker.amplitude) - 1 ELSE Len(pucker.amplitude))

(***************************************************************************)
(* Properties of the batch driver (Spec).                                  *)
(***************************************************************************)
\* the file needs no engine to be rejected: its system is unregistered, a
\* line does not parse, or a ring index is past its last atom
RejectedFile(file) ==
    \/ file.system_name \notin DOMAIN ring_indices
    \/ parse_xyz_to_df(file.lines).err # "none"
    \/ get_ring_coord(parse_xyz_to_df(file.lines).df, ring_indices[file.system_name]).err # "none"

\* the number of files among the first i visited that got a result entry
AppendedUpTo(i) == Cardinality({j \in 1..i : handled[j] = "appended"})

\* C2: a failure while handling one file never aborts the batch: every later
\* file is still processed, and the result list holds exactly one entry for
\* each file of a registered system whose processing raised no error (in the
\* order visited) and none for a file that failed.
C2_BatchSurvivesFailures ==
    calls # <<>> =>
        LET files == batch_files(tree)
            n == Len(files)
        IN  /\ Len(handled) = (IF idx > n THEN n ELSE idx - 1)
            /\ Len(results) = AppendedUpTo(Len(handled))
            /\ \A i \in 1..Len(handled) :
                  /\ handled[i] = "appended" <=> ~RejectedFile(files[i])
                  /\ handled[i] = "appended" =>
                        /\ results[AppendedUpTo(i)].system_name = files[i].system_name
                        /\ results[AppendedUpTo(i)].chirality = files[i].chirality

C2_Witness ==
    /\ pc = "done"
    /\ Len(handled) = 2
    /\ handled[1] = "error"
    /\ handled[2] = "appended"
    /\ Len(results) = 1

\* the ring of the file has a zero cross product R1 x R2
DegenerateRing(file) ==
    /\ ~RejectedFile(file)
    /\ LET df == parse_xyz_to_df(file.lines).df
           rows == get_ring_coord(df, ring_indices[file.system_name]).rows
           axes == get_mean_plane(translate(XYZValues(rows)))
       IN  Cross(axes.R1, axes.R2) = <<Zero, Zero, Zero>>

\* C4: a degenerate ring (zero cross product of the mean-plane axes) is
\* reported as an error: no NaN reaches the amplitudes, Q, theta, phi or the
\* label of a result, and analyze_system returns no entry for that ring.
C4_DegenerateRingRejected ==
    /\ \A i \in 1..Len(results) :
          LET v == results[i].puckering_values
          IN  /\ ~HasNaN(v.amplitude)
              /\ v.Q # NotANumber /\ v.theta_deg # NotANumber /\ v.phi_deg # NotANumber
              /\ v.conformation \in Labels
    /\ \A i \in 1..Len(handled) :
          DegenerateRing(batch_files(tree)[i]) => handled[i] # "appended"

\* C6: writing the result list with save_results and reading the mapping
\* back gives, for every result of the list, a record under
\* "<system>_<chirality>" whose Amplitude, theta, phi and conformation are
\* that result's Q, theta_deg, phi_deg and conformation.
C6_RoundTrip ==
    raw_data.loaded =>
        \A i \in 1..Len(results) :
            LET key == ExportKey(results[i])
                v == results[i].puckering_values
            IN  /\ key \in DOMAIN raw_data.data
                /\ raw_data.data[key].Amplitude = v.Q
                /\ raw_data.data[key].theta = v.theta_deg
                /\ raw_data.data[key].phi = v.phi_deg
                /\ raw_data.data[key].conformation = v.conformation

Called(f) == f \in Range(calls)

\* what C7 says of every run and what holds of every run: analyze_system is
\* called only with the root directory found, save_results and
\* plot_puckering_distribution only after analyze_system returned a
\* non-empty list
CallOrder ==
    /\ Called("analyze_system") => tree.root
    /\ (Called("save_results") \/ Called("plot_puckering_distribution")) =>
          /\ Called("analyze_system")
          /\ idx > Len(batch_files(tree))
          /\ results # <<>>
    /\ Called("plot_puckering_distribution") => Called("save_results")
    /\ json_file.exists => Called("save_results")
    /\ raw_data.loaded => Called("plot_puckering_distribution")

Ended == pc \in {"done", "exited", "raised"}

\* the root directory is missing, or analyze_system returned no result
NothingToSave ==
    \/ ~tree.root
    \/ Called("analyze_system") /\ idx > Len(batch_files(tree)) /\ results = <<>>

\* C7 as stated: in every run of main the calls are made in that order, and
\* if the root directory is missing or the batch yields zero results main
\* returns False without writing the output file and without plotting.
C7_AsStated ==
    /\ CallOrder
    /\ (Ended /\ NothingToSave) =>
          /\ ret = "False"
          /\ ~json_file.exists
          /\ ~Called("save_results") /\ ~Called("plot_puckering_distribution")

\* C7 amended: the calls are made in that order in every run; a run started
\* with exactly one command-line argument, whose output folder exists or can
\* be created, returns False without writing or plotting if the root
\* directory is missing or the batch yields zero results; a run started with
\* any other number of arguments exits with status 1, and a run whose output
\* folder cannot be created raises the error of mkdir, both before the root
\* directory is looked at, with nothing analysed, written or plotted.
C7_FailsBeforeWriting ==
    /\ CallOrder
    /\ (Ended /\ argc = 2 /\ tree.output_ok /\ NothingToSave) =>
          /\ pc = "done"
          /\ ret = "False"
          /\ ~json_file.exists
          /\ ~Called("save_results") /\ ~Called("plot_puckering_distribution")
    /\ (Ended /\ argc # 2) =>
          /\ pc = "exited"
          /\ ret = "SystemExit(1)"
          /\ calls = <<>>
          /\ ~json_file.exists
    /\ (Ended /\ argc = 2 /\ ~tree.output_ok) =>
          /\ pc = "raised"
          /\ ret = "OSError"
          /\ calls = <<>>
          /\ ~json_file.exists

C7_Witness ==
    /\ pc = "done"
    /\ argc = 2
    /\ tree.output_ok
    /\ tree.root
    /\ Len(handled) = 2
    /\ results = <<>>
    /\ ret = "False"
    /\ ~json_file.exists

====
